---------------------------- MODULE Spec2Model ----------------------------
(***************************************************************************)
(* Model of the Bellman-Ford engine of src/main.cpp (class                 *)
(* BellmanFordAlgorithm) over the dense-matrix Graph of                    *)
(* src/pathFindingBase.h.                                                  *)
(*                                                                         *)
(* Numbers.  The code works on doubles.  The model works in fixed point:   *)
(* every weight and distance is an integer number of thousandths (Unit),   *)
(* which is exact for every graph of main.cpp (their weights have at most  *)
(* three decimals) and for the halves used by the enumerated graphs.  The  *)
(* one place where the code leaves double arithmetic, the `int             *)
(* new_distance` of ContainsNegativeCycles_Sedgewick, is modelled by       *)
(* ToInt, truncation toward zero.                                          *)
(*                                                                         *)
(* Vectors are functions over 0..size-1, so the indices are the code's.    *)
(***************************************************************************)
EXTENDS Integers, Sequences, FiniteSets, TLC

(* Thousandths per 1.0 of the code's doubles. *)
Unit == 1000

(* pathFindingBase.h: const double INF = 1000000.0, NEG_INF = -1000000.0 *)
INF == 1000000 * Unit
NEG_INF == -(1000000 * Unit)

(* (int) of a double: truncation toward zero, then back to a double. *)
ToInt(x) == IF x >= 0 THEN (x \div Unit) * Unit ELSE -(((-x) \div Unit) * Unit)

(* TLC computes a definition's value only when it is first needed, which     *)
(* nests the passes of a strategy one inside the other.  Evaluated(x) is      *)
(* TRUE for every x; asking for it makes TLC compute x there and then.        *)
Evaluated(x) == x = x

(* graph.Nodes.size() *)
Size(M) == Cardinality(DOMAIN M)

(* A freshly constructed BellmanFordAlgorithm: empty vectors, _solved = false. *)
EmptyVec == [i \in {} |-> 0]
FreshEngine == [d |-> EmptyVec, p |-> EmptyVec, solved |-> FALSE]

(* std::vector::resize(n, fill): keeps the elements it has, appends fill. *)
Resize(v, n, fill) == [i \in 0..(n - 1) |-> IF i \in DOMAIN v THEN v[i] ELSE fill]

(* The common prologue of the four strategies (lines 33-38, 88-93, 138-143, 192-197). *)
Prologue(eng, M, start) ==
  LET n == Size(M)
      d0 == Resize(eng.d, n, INF)
  IN [d |-> [d0 EXCEPT ![start] = 0], p |-> Resize(eng.p, n, -1)]

---------------------------------------------------------------------------
(* Strategy A: ContainsNegativeCycles *)

(* The inner loop of lines 48-56 for one `from`, from target `to` on. *)
RECURSIVE RowA(_, _, _, _)
RowA(M, from, st, to) ==
  IF to >= Size(M) THEN st
  ELSE LET nd == st.d[from] + M[from][to]
       IN IF st.d[to] > nd
          THEN RowA(M, from, [d |-> [st.d EXCEPT ![to] = nd],
                              p |-> [st.p EXCEPT ![to] = from],
                              updated |-> TRUE], to + 1)
          ELSE RowA(M, from, st, to + 1)

(* One pass: the loop of lines 46-57, from row `from` on. *)
RECURSIVE PassA(_, _, _)
PassA(M, st, from) ==
  IF from >= Size(M) THEN st
  ELSE LET row == RowA(M, from, st, 0)
       IN IF Evaluated(row) THEN PassA(M, row, from + 1) ELSE row

(* The loop of lines 43-60: at most n-1 passes, left when a pass changes nothing. *)
RECURSIVE LoopA(_, _, _)
LoopA(M, st, k) ==
  IF k >= Size(M) - 1 THEN st
  ELSE LET s2 == PassA(M, [st EXCEPT !.updated = FALSE], 0)
       IN IF ~s2.updated THEN s2 ELSE LoopA(M, s2, k + 1)

(* The verification pass of lines 66-75: some pair still admits an improvement. *)
StillRelaxableA(M, d) ==
  \E from \in DOMAIN M : \E to \in DOMAIN M : d[to] > d[from] + M[from][to]

(* ContainsNegativeCycles with _solved set before the verification pass, so   *)
(* that it is true on both returns.                                           *)
ContainsNegativeCyclesSolvedFirst(eng, M, start) ==
  LET pro == Prologue(eng, M, start)
      st == LoopA(M, [d |-> pro.d, p |-> pro.p, updated |-> FALSE], 0)
      cyc == st.updated /\ StillRelaxableA(M, st.d)
  IN [d |-> st.d, p |-> st.p, solved |-> TRUE, ret |-> cyc]

(* Lines 31-81: the whole of ContainsNegativeCycles.  _solved is assigned     *)
(* only on the path that returns false.                                       *)
ContainsNegativeCyclesOp(eng, M, start) ==
  LET pro == Prologue(eng, M, start)
      st == LoopA(M, [d |-> pro.d, p |-> pro.p, updated |-> FALSE], 0)
      cyc == st.updated /\ StillRelaxableA(M, st.d)
  IN [d |-> st.d, p |-> st.p,
      solved |-> IF cyc THEN eng.solved ELSE TRUE,
      ret |-> cyc]

---------------------------------------------------------------------------
(* Strategy B: ContainsNegativeCycles_Sedgewick *)

(* The inner loop of lines 101-118 for one `from`, from target `to` on. *)
RECURSIVE RowB(_, _, _, _, _)
RowB(M, start, from, st, to) ==
  IF to >= Size(M) THEN st
  ELSE IF (from # start /\ st.p[from] = -1) \/ M[from][to] = INF
       THEN RowB(M, start, from, st, to + 1)
       ELSE LET new_distance == ToInt(st.d[from] + M[from][to])
            IN IF st.d[to] > new_distance
               THEN RowB(M, start, from,
                         [d |-> [st.d EXCEPT ![to] = new_distance],
                          p |-> [st.p EXCEPT ![to] = from],
                          updated |-> TRUE], to + 1)
               ELSE RowB(M, start, from, st, to + 1)

(* One pass: the loop of lines 99-119, from row `from` on. *)
RECURSIVE PassB(_, _, _, _)
PassB(M, start, st, from) ==
  IF from >= Size(M) THEN st
  ELSE LET row == RowB(M, start, from, st, 0)
       IN IF Evaluated(row) THEN PassB(M, start, row, from + 1) ELSE row

(* The loop of lines 96-125: n passes; "found" when pass n-1 updated. *)
RECURSIVE LoopB(_, _, _, _)
LoopB(M, start, st, i) ==
  IF i >= Size(M) THEN [d |-> st.d, p |-> st.p, found |-> FALSE]
  ELSE LET s2 == PassB(M, start, [d |-> st.d, p |-> st.p, updated |-> FALSE], 0)
       IN IF s2.updated /\ i = Size(M) - 1
          THEN [d |-> s2.d, p |-> s2.p, found |-> TRUE]
          ELSE LoopB(M, start, s2, i + 1)

ContainsNegativeCycles_SedgewickOp(eng, M, start) ==
  LET pro == Prologue(eng, M, start)
      st == LoopB(M, start, [d |-> pro.d, p |-> pro.p], 0)
  IN [d |-> st.d, p |-> st.p,
      solved |-> IF st.found THEN eng.solved ELSE TRUE,
      ret |-> st.found]

---------------------------------------------------------------------------
(* Strategy C: FindPathsAndNegativeCycles *)

(* The inner loop for one `from`: lines 204-216 (mark = FALSE, first round)   *)
(* or lines 229-242 (mark = TRUE, second round).                              *)
RECURSIVE RowC(_, _, _, _, _)
RowC(M, mark, from, st, to) ==
  IF to >= Size(M) THEN st
  ELSE IF M[from][to] = INF THEN RowC(M, mark, from, st, to + 1)
       ELSE LET nd == st.d[from] + M[from][to]
            IN IF st.d[to] > nd
               THEN RowC(M, mark, from,
                         [d |-> [st.d EXCEPT ![to] = IF mark THEN NEG_INF ELSE nd],
                          p |-> [st.p EXCEPT ![to] = IF mark THEN -2 ELSE from],
                          negativeCycles |-> st.negativeCycles \/ mark], to + 1)
               ELSE RowC(M, mark, from, st, to + 1)

(* One pass of either round, from row `from` on. *)
RECURSIVE PassC(_, _, _, _)
PassC(M, mark, st, from) ==
  IF from >= Size(M) THEN st
  ELSE LET row == RowC(M, mark, from, st, 0)
       IN IF Evaluated(row) THEN PassC(M, mark, row, from + 1) ELSE row

(* `passes` passes of one round. *)
RECURSIVE RoundC(_, _, _, _)
RoundC(M, mark, st, passes) ==
  IF passes <= 0 THEN st
  ELSE LET pass == PassC(M, mark, st, 0)
       IN IF Evaluated(pass) THEN RoundC(M, mark, pass, passes - 1) ELSE pass

(* Number of passes of the second round (line 225). *)
SecondRoundPasses(M) == Size(M) - 1

FindPathsAndNegativeCyclesOp(eng, M, start) ==
  LET pro == Prologue(eng, M, start)
      r1 == RoundC(M, FALSE, [d |-> pro.d, p |-> pro.p, negativeCycles |-> FALSE],
                   Size(M) - 1)
      r2 == RoundC(M, TRUE, r1, SecondRoundPasses(M))
  IN [d |-> r2.d, p |-> r2.p, solved |-> TRUE, ret |-> r2.negativeCycles]

---------------------------------------------------------------------------
(* Strategy D: FindPathOnly *)

(* int _QueueGet(queue): front, then pop. *)
_QueueGet(q) == [v |-> Head(q), q |-> Tail(q)]

(* The for loop of lines 164-179 for one popped node, from target `to` on. *)
RECURSIVE RelaxD(_, _, _, _)
RelaxD(M, from, st, to) ==
  IF to >= Size(M) THEN st
  ELSE IF M[from][to] = INF THEN RelaxD(M, from, st, to + 1)
       ELSE LET new_distance == st.d[from] + M[from][to]
            IN IF st.d[to] > new_distance
               THEN RelaxD(M, from,
                           [st EXCEPT !.d[to] = new_distance,
                                      !.q = Append(st.q, to),
                                      !.p[to] = from], to + 1)
               ELSE RelaxD(M, from, st, to + 1)

(* The loops of lines 151-180, run until the marker n has been taken and put  *)
(* back once (one round) or the call is over.  st.q is the queue, st.z the    *)
(* round counter, st.pops the number of times the marker was taken, st.inner  *)
(* tells whether control is inside the inner `while ((from = _QueueGet(q)) == *)
(* n)`, which takes the front without looking at the queue's size, or at the  *)
(* outer `while (!q.empty())`.  st.done becomes "bound" (return of line 159), *)
(* "drained" (the outer loop found the queue empty) or "undefined" (front()   *)
(* of an empty queue).                                                        *)
RECURSIVE RoundD(_, _)
RoundD(M, st) ==
  IF ~st.inner /\ st.q = <<>> THEN [st EXCEPT !.done = "drained"]
  ELSE IF st.q = <<>> THEN [st EXCEPT !.done = "undefined"]
  ELSE LET g == _QueueGet(st.q)
       IN IF g.v = Size(M)
          THEN IF st.z > Size(M)
               THEN [st EXCEPT !.q = g.q, !.z = st.z + 1, !.pops = st.pops + 1,
                               !.done = "bound"]
               ELSE [st EXCEPT !.q = Append(g.q, Size(M)), !.z = st.z + 1,
                               !.pops = st.pops + 1, !.inner = TRUE]
          ELSE LET relaxed == RelaxD(M, g.v, [st EXCEPT !.q = g.q, !.inner = FALSE], 0)
               IN IF Evaluated(relaxed) THEN RoundD(M, relaxed) ELSE relaxed

(* Round after round until the call is over. *)
RECURSIVE LoopD(_, _)
LoopD(M, st) ==
  LET s2 == RoundD(M, st) IN IF s2.done # "running" THEN s2 ELSE LoopD(M, s2)

(* FindPathOnly returning at the round bound without the assignment of        *)
(* line 158.                                                                  *)
FindPathOnlyBoundUnmarked(eng, M, start) ==
  LET pro == Prologue(eng, M, start)
      st == LoopD(M, [d |-> pro.d, p |-> pro.p, q |-> <<start, Size(M)>>,
                      z |-> 0, pops |-> 0, inner |-> FALSE, done |-> "running"])
  IN [d |-> st.d, p |-> st.p, solved |-> eng.solved,
      ret |-> FALSE, done |-> st.done, pops |-> st.pops]

(* Lines 136-181: the whole of FindPathOnly.  done tells how the call ended,  *)
(* pops how many times the marker n was taken from the queue.                 *)
FindPathOnlyOp(eng, M, start) ==
  LET pro == Prologue(eng, M, start)
      st == LoopD(M, [d |-> pro.d, p |-> pro.p, q |-> <<start, Size(M)>>,
                      z |-> 0, pops |-> 0, inner |-> FALSE, done |-> "running"])
  IN [d |-> st.d, p |-> st.p,
      solved |-> IF st.done = "bound" THEN TRUE ELSE eng.solved,
      ret |-> FALSE, done |-> st.done, pops |-> st.pops]

---------------------------------------------------------------------------
(* ReconstructShortestPath *)

(* The for loop of lines 262-265: the nodes pushed while following            *)
(* _previousVertex from `at`.  The loop has no bound of its own: when the     *)
(* links lead back to a node already visited it never ends (loops = TRUE).    *)
RECURSIVE WalkBack(_, _, _, _)
WalkBack(p, at, list, seen) ==
  IF p[at] = -1 \/ p[at] = -2 THEN [loops |-> FALSE, list |-> list]
  ELSE IF at \in seen THEN [loops |-> TRUE, list |-> list]
       ELSE WalkBack(p, p[at], Append(list, at), seen \cup {at})

(* std::reverse *)
Reverse(s) == [i \in 1..Len(s) |-> s[Len(s) + 1 - i]]

(* ReconstructShortestPath with the gate on the vectors being filled instead  *)
(* of on _solved.                                                             *)
ReconstructGatedOnVectors(eng, start, finish) ==
  IF eng.solved \/ finish \in DOMAIN eng.d
  THEN IF eng.d[finish] = NEG_INF
       THEN [msg |-> "Infinite number of shortest paths", path |-> <<>>, returns |-> TRUE]
       ELSE LET w == WalkBack(eng.p, finish, <<>>, {})
            IN IF w.loops
               THEN [msg |-> "none", path |-> <<>>, returns |-> FALSE]
               ELSE [msg |-> "Path", path |-> Reverse(Append(w.list, start)),
                     returns |-> TRUE]
  ELSE [msg |-> "Not solved.", path |-> <<>>, returns |-> TRUE]

(* The outcome of one call: what it prints (msg), the vector it returns       *)
(* (path), and whether it returns at all (returns).                           *)
ReconstructShortestPathOp(eng, start, finish) ==
  IF eng.solved
  THEN IF eng.d[finish] = NEG_INF
       THEN [msg |-> "Infinite number of shortest paths", path |-> <<>>, returns |-> TRUE]
       ELSE LET w == WalkBack(eng.p, finish, <<>>, {})
            IN IF w.loops
               THEN [msg |-> "none", path |-> <<>>, returns |-> FALSE]
               ELSE [msg |-> "Path", path |-> Reverse(Append(w.list, start)),
                     returns |-> TRUE]
  ELSE [msg |-> "Not solved.", path |-> <<>>, returns |-> TRUE]

---------------------------------------------------------------------------
(* Graphs *)

(* graph.Matrix = { {..}, .. }: rows as written in main.cpp, indexed from 0. *)
ToMatrix(rows) ==
  [i \in 0..(Len(rows) - 1) |-> [j \in 0..(Len(rows) - 1) |-> rows[i + 1][j + 1]]]

(* runAllNoNegativeCyclesTests, first graph (lines 361-365), from = 0. *)
Graph5 == ToMatrix(<<
  <<0,   6000, 7000,  INF,   INF>>,
  <<INF, 0,    8000, -4000,  5000>>,
  <<INF, INF,  0,     9000, -3000>>,
  <<INF, INF,  INF,   0,     7000>>,
  <<INF, -2000, INF,  INF,   0>> >>)

(* runAllNoNegativeCyclesTests, second graph (lines 388-393), from = 4. *)
Graph6 == ToMatrix(<<
  <<0,   410,  INF, INF, INF,  290>>,
  <<INF, 0,    510, INF, 320,  INF>>,
  <<INF, INF,  0,   500, INF,  INF>>,
  <<450, INF,  INF, 0,   INF, -380>>,
  <<INF, INF,  320, 360, 0,    INF>>,
  <<INF, -290, INF, INF, 210,  0>> >>)

(* runOnNegativeCycles (lines 421-428), from = 0. *)
Graph8 == ToMatrix(<<
  <<0,   1000, INF,  INF,   INF,  INF,  INF,  INF>>,
  <<INF, 0,    1000, INF,   INF,  4000, 4000, INF>>,
  <<INF, INF,  0,    INF,   1000, INF,  INF,  INF>>,
  <<INF, INF,  1000, 0,     INF,  INF,  INF,  INF>>,
  <<INF, INF,  INF,  -3000, 0,    INF,  INF,  INF>>,
  <<INF, INF,  INF,  INF,   INF,  0,    5000, 3000>>,
  <<INF, INF,  INF,  INF,   INF,  INF,  0,    4000>>,
  <<INF, INF,  INF,  INF,   INF,  INF,  INF,  0>> >>)

(* runArbitrageTests, lines 483-485: negative cycle, from = 0. *)
Arbitrage3 == ToMatrix(<<
  <<0,    489, -402>>,
  <<-489, 0,   -891>>,
  <<402,  890,  0>> >>)

(* runArbitrageTests, lines 495-497: "No negative cycle", from = 0. *)
Arbitrage3Mod1 == ToMatrix(<<
  <<0,    490, -402>>,
  <<-489, 0,   -891>>,
  <<403,  892,  0>> >>)

(* runArbitrageTests, lines 506-508: "No negative cycle", from = 0. *)
Arbitrage3Mod2 == ToMatrix(<<
  <<0,    490, -402>>,
  <<-489, 0,   -891>>,
  <<403,  891,  0>> >>)

(* runArbitrageTests, lines 461-465: negative cycle, from = 0. *)
Arbitrage5 == ToMatrix(<<
  <<0,    489,  -402, -4791, -378>>,
  <<-489, 0,    -891, -5278, -865>>,
  <<402,  890,  0,    -4391, 27>>,
  <<4791, 5285, 4392, 0,     4418>>,
  <<378,  865,  -27,  -4415, 0>> >>)

(* runArbitrageTests, lines 524-528: no negative cycle, from = 0. *)
Arbitrage5Big == ToMatrix(<<
  <<0,    490, -402, 700, 413>>,
  <<-489, 0,   -891, 890, 360>>,
  <<403,  891, 0,    910, 581>>,
  <<340,  405, 607,  0,   720>>,
  <<403,  350, 571,  710, 0>> >>)

(* runArbitrageTests, lines 544-546: negative cycle, from = 0. *)
Real3 == ToMatrix(<<
  <<0,    100,  -5010>>,
  <<-90,  0,    -5100>>,
  <<5000, 5090, 0>> >>)

(* runArbitrageTests, lines 557-559: no negative cycle, from = 0. *)
Real3Mod == ToMatrix(<<
  <<0,    120,  -5010>>,
  <<-90,  0,    -5100>>,
  <<5020, 5110, 0>> >>)

(* The demo driver's calls: a graph and the `from` main.cpp passes with it. *)
TestScenarios ==
  { [Matrix |-> Graph5, from |-> 0],
    [Matrix |-> Graph6, from |-> 4],
    [Matrix |-> Graph8, from |-> 0],
    [Matrix |-> Arbitrage5, from |-> 0],
    [Matrix |-> Arbitrage3, from |-> 0],
    [Matrix |-> Arbitrage3Mod1, from |-> 0],
    [Matrix |-> Arbitrage3Mod2, from |-> 0],
    [Matrix |-> Arbitrage5Big, from |-> 0],
    [Matrix |-> Real3, from |-> 0],
    [Matrix |-> Real3Mod, from |-> 0] }

(* Graphs a caller may build besides main.cpp's.  ZeroCycle3: the cycle       *)
(* 0 -> 2 -> 0 weighs exactly 0 (0.5 - 0.5) and is entered from node 1 at     *)
(* cost 1.5.  ZeroCycleEntered3: the same cycle run the other way round and   *)
(* entered at node 2.  CycleTail4: the negative cycle 3 -> 2 -> 3 with the tail        *)
(* 2 -> 1 -> 0 of costly edges, the source 3 reaching the tail directly.      *)
ZeroCycle3 == ToMatrix(<<
  <<0,    INF, 500>>,
  <<1500, 0,   INF>>,
  <<-500, INF, 0>> >>)

ZeroCycleEntered3 == ToMatrix(<<
  <<0,   INF, -500>>,
  <<INF, 0,   1500>>,
  <<500, INF, 0>> >>)

CycleTail4 == ToMatrix(<<
  <<0,    INF,  INF,  INF>>,
  <<9000, 0,    INF,  INF>>,
  <<INF,  9000, 0,    -2000>>,
  <<1000, 1000, 1000, 0>> >>)

CallerScenarios ==
  { [Matrix |-> ZeroCycle3, from |-> 1],
    [Matrix |-> ZeroCycleEntered3, from |-> 1],
    [Matrix |-> CycleTail4, from |-> 3] }

(* Bounds: the size of an enumerated graph (its nodes plus its weighted       *)
(* entries) and the number of strategy calls made on one engine.              *)
MaxSize == 4
MaxRuns == 2

(* Edge weights of the enumerated graphs: -0.5, 0.5 and 1.5. *)
Weights == {-(Unit \div 2), Unit \div 2, Unit + Unit \div 2}

(* The matrix of n nodes whose entries are w on its domain and, elsewhere,    *)
(* 0 on the diagonal and INF (no edge) off it.                                *)
MatrixOf(n, w) ==
  [i \in 0..(n - 1) |->
    [j \in 0..(n - 1) |->
      IF <<i, j>> \in DOMAIN w THEN w[<<i, j>>] ELSE IF i = j THEN 0 ELSE INF]]

(* The subsets of S of at most k elements. *)
RECURSIVE UpTo(_, _)
UpTo(S, k) ==
  IF k <= 0 THEN {{}}
  ELSE LET smaller == UpTo(S, k - 1)
       IN smaller \cup { X \cup {c} : X \in smaller, c \in S }

(* The sets of at most k cells of an n x n matrix. *)
CellSets(n, k) == UpTo((0..(n - 1)) \X (0..(n - 1)), k)

(* Every graph whose nodes and weighted entries number at most MaxSize, with  *)
(* every node of it as the source.                                            *)
EnumScenarios ==
  UNION { UNION { { [Matrix |-> MatrixOf(n, w), from |-> s] :
                      w \in [E -> Weights], s \in 0..(n - 1) }
                  : E \in CellSets(n, MaxSize - n) }
          : n \in 1..MaxSize }

Scenarios == TestScenarios \cup CallerScenarios \cup EnumScenarios

---------------------------------------------------------------------------
(* The engine and its caller *)

VARIABLES
  Matrix,           \* graph.Matrix, unchanged while an engine works on it
  from,             \* the source index the caller passes (main.cpp's `from`)
  _shortestPath,    \* vector<double> _shortestPath
  _previousVertex,  \* vector<int> _previousVertex
  _solved,          \* bool _solved
  last,             \* the last strategy call: its name and return value,
                    \* and _solved as it was when the call began
  out,              \* the outcome of the last ReconstructShortestPath call
  runs              \* number of strategy calls made on this engine

vars == <<Matrix, from, _shortestPath, _previousVertex, _solved, last, out, runs>>

Nodes == DOMAIN Matrix
Engine == [d |-> _shortestPath, p |-> _previousVertex, solved |-> _solved]
NoCall == [op |-> "none", ret |-> FALSE, wasSolved |-> FALSE]
NoOut == [msg |-> "none", path |-> <<>>, returns |-> TRUE, finish |-> -1]

Init ==
  /\ \E sc \in Scenarios : Matrix = sc.Matrix /\ from = sc.from
  /\ _shortestPath = FreshEngine.d
  /\ _previousVertex = FreshEngine.p
  /\ _solved = FreshEngine.solved
  /\ last = NoCall
  /\ out = NoOut
  /\ runs = 0

(* What a strategy call leaves behind, r being the strategy's result. *)
Ran(op, r) ==
  /\ runs < MaxRuns
  /\ _shortestPath' = r.d
  /\ _previousVertex' = r.p
  /\ _solved' = r.solved
  /\ last' = [op |-> op, ret |-> r.ret, wasSolved |-> _solved]
  /\ out' = NoOut
  /\ runs' = runs + 1
  /\ UNCHANGED <<Matrix, from>>

ContainsNegativeCycles ==
  Ran("A", ContainsNegativeCyclesOp(Engine, Matrix, from))

ContainsNegativeCycles_Sedgewick ==
  Ran("B", ContainsNegativeCycles_SedgewickOp(Engine, Matrix, from))

FindPathsAndNegativeCycles ==
  Ran("C", FindPathsAndNegativeCyclesOp(Engine, Matrix, from))

FindPathOnly ==
  Ran("D", FindPathOnlyOp(Engine, Matrix, from))

ReconstructShortestPath ==
  \E finish \in Nodes :
    LET r == ReconstructShortestPathOp(Engine, from, finish)
    IN /\ out' = [msg |-> r.msg, path |-> r.path, returns |-> r.returns,
                  finish |-> finish]
       /\ UNCHANGED <<Matrix, from, _shortestPath, _previousVertex, _solved,
                      last, runs>>

Next ==
  \/ ContainsNegativeCycles
  \/ ContainsNegativeCycles_Sedgewick
  \/ FindPathsAndNegativeCycles
  \/ FindPathOnly
  \/ ReconstructShortestPath

Spec == Init /\ [][Next]_vars

---------------------------------------------------------------------------
(* What the claims speak of, defined on the graph alone.                     *)
(* A walk follows entries other than INF; INF below stands for "no walk".    *)

Plus(a, b) == IF a = INF \/ b = INF THEN INF ELSE a + b

Least(S) == CHOOSE x \in S : \A y \in S : x <= y

(* For every node j, the least weight of a walk from i to j of at most k     *)
(* edges (the empty walk from i to i weighs 0).                               *)
RECURSIVE Walks(_, _, _)
Walks(M, i, k) ==
  IF k <= 0 THEN [j \in DOMAIN M |-> IF j = i THEN 0 ELSE INF]
  ELSE LET prev == Walks(M, i, k - 1)
       IN IF Evaluated(prev)
          THEN [j \in DOMAIN M |->
                 Least({prev[j]} \cup { Plus(prev[u], M[u][j]) : u \in DOMAIN M })]
          ELSE prev

(* v can be reached from i. *)
Reaches(M, i, v) == Walks(M, i, Size(M) - 1)[v] # INF

(* i lies on a closed walk of negative weight, hence in a strongly connected  *)
(* component with a negative cycle; every node of a negative cycle does.      *)
OnNegativeCycle(M, i) ==
  LET w == Walks(M, i, Size(M) - 1)
  IN \E u \in DOMAIN M : Plus(w[u], M[u][i]) < 0

HasNegativeCycle(M) == \E i \in DOMAIN M : OnNegativeCycle(M, i)

(* The nodes reachable from some node lying on a negative cycle. *)
Contaminated(M) ==
  LET on == { i \in DOMAIN M : OnNegativeCycle(M, i) }
  IN { v \in DOMAIN M : \E c \in on : Reaches(M, c, v) }

(* The true shortest-path cost from s to v in a graph free of negative cycles. *)
TrueCost(M, s, v) == Walks(M, s, Size(M) - 1)[v]

NoNegativeSelfLoop(M) == \A i \in DOMAIN M : M[i][i] >= 0

(* The weight of the path `path` (a sequence of nodes), INF when it uses a   *)
(* missing edge.                                                              *)
RECURSIVE PathWeight(_, _)
PathWeight(M, path) ==
  IF Len(path) <= 1 THEN 0
  ELSE Plus(M[path[1]][path[2]], PathWeight(M, Tail(path)))

(* The engine has been used exactly once, by strategy op. *)
FreshRun(op) == runs = 1 /\ last.op = op
Called == out.finish # -1
Marked == { v \in Nodes : _shortestPath[v] = NEG_INF /\ _previousVertex[v] = -2 }

(* The strategy named op, as a function of the engine it is called on. *)
StrategyOp(op, eng, M, start) ==
  CASE op = "A" -> ContainsNegativeCyclesOp(eng, M, start)
    [] op = "B" -> ContainsNegativeCycles_SedgewickOp(eng, M, start)
    [] op = "C" -> FindPathsAndNegativeCyclesOp(eng, M, start)
    [] op = "D" -> FindPathOnlyOp(eng, M, start)

Detectors == {"A", "B", "C"}
Strategies == {"A", "B", "C", "D"}

---------------------------------------------------------------------------
(* The claims *)

(* C1: on every graph that contains a negative cycle, reachable from the     *)
(* source or not, strategies A, B and C (each on a fresh engine) return true. *)
C1_EveryDetectorReportsCycle ==
  (runs = 1 /\ last.op \in Detectors /\ HasNegativeCycle(Matrix)) => last.ret

(* After strategy C the marked nodes (distance NEG_INF, predecessor -2) are  *)
(* exactly the nodes reachable from a negative cycle, and                     *)
(* ReconstructShortestPath returns the empty sequence for exactly those.      *)
MarksExactlyContaminated ==
  /\ Marked = Contaminated(Matrix)
  /\ Called => ((out.path = <<>>) <=> (out.finish \in Contaminated(Matrix)))
  /\ Matrix = Graph8 => Marked = {2, 3, 4}

(* C2: after FindPathsAndNegativeCycles on any graph and source the nodes    *)
(* with distance NEG_INF and predecessor -2 are exactly the nodes reachable   *)
(* from a node on a negative cycle, and ReconstructShortestPath returns the   *)
(* empty sequence for exactly those nodes (2, 3 and 4 in the 8-node test).    *)
C2_MarksExactlyContaminated == FreshRun("C") => MarksExactlyContaminated

(* C3: on a graph with no negative cycle the four strategies, each on a      *)
(* fresh engine, end with the same distance for every node.                   *)
C3_StrategiesAgreeOnDistance ==
  (runs = 1 /\ ~HasNegativeCycle(Matrix)) =>
    \A op \in Strategies : StrategyOp(op, FreshEngine, Matrix, from).d = _shortestPath

(* C4: on a graph with no negative cycle, after any strategy the path         *)
(* reconstructed to a reachable node starts at the source, ends at the node   *)
(* and weighs the true shortest-path cost; 0 -> 1 is [0,2,4,1] in the 5-node  *)
(* test and 4 -> 2 is [4,3,5,1,2] in the 6-node test.                         *)
C4_ReconstructedPathIsShortest ==
  (runs = 1 /\ Called /\ ~HasNegativeCycle(Matrix)
     /\ Reaches(Matrix, from, out.finish)) =>
    /\ out.returns
    /\ out.path # <<>>
    /\ out.path[1] = from
    /\ out.path[Len(out.path)] = out.finish
    /\ PathWeight(Matrix, out.path) = TrueCost(Matrix, from, out.finish)
    /\ (Matrix = Graph5 /\ out.finish = 1) => out.path = <<0, 2, 4, 1>>
    /\ (Matrix = Graph6 /\ out.finish = 2) => out.path = <<4, 3, 5, 1, 2>>

(* C5: on a graph with no negative cycle strategies A, B and C return false. *)
C5_NoFalseDetection ==
  (runs = 1 /\ last.op \in Detectors /\ ~HasNegativeCycle(Matrix)) => ~last.ret

(* C6: while _solved is false ReconstructShortestPath returns the empty      *)
(* sequence, for every start and finish, whatever the vectors hold (they are  *)
(* empty on a new engine, so it cannot have read them).                       *)
C6_UnsolvedReturnsEmpty ==
  ~_solved =>
    /\ Called => (out.path = <<>> /\ out.msg = "Not solved." /\ out.returns)
    /\ \A start \in Nodes : \A finish \in Nodes :
         LET r == ReconstructShortestPathOp(Engine, start, finish)
         IN r.path = <<>> /\ r.msg = "Not solved." /\ r.returns

(* C6's case: ReconstructShortestPath called on a new engine, before any     *)
(* strategy has run, while both vectors are still empty.                      *)
C6_Witness ==
  /\ ~_solved /\ runs = 0 /\ Called
  /\ DOMAIN _shortestPath = {} /\ DOMAIN _previousVertex = {}
  /\ out.path = <<>> /\ out.msg = "Not solved."

(* C7: whenever _solved is true ReconstructShortestPath terminates: the walk *)
(* over the predecessor links never enters a cycle.                           *)
C7_ReconstructTerminates == (_solved /\ Called) => out.returns

(* C8: a strategy run on a used engine leaves the distance vector, the        *)
(* predecessor vector and _solved as the same run on a fresh engine does.     *)
C8_RunOverwritesPriorState ==
  runs >= 1 =>
    LET fresh == StrategyOp(last.op, FreshEngine, Matrix, from)
    IN /\ _shortestPath = fresh.d
       /\ _previousVertex = fresh.p
       /\ _solved = fresh.solved

(* C9, as stated: after any strategy returns, whether or not it reported a   *)
(* negative cycle, _solved is true and ReconstructShortestPath does not       *)
(* answer "Not solved.".                                                      *)
C9_EveryRunSolves ==
  runs >= 1 => (_solved /\ (Called => out.msg # "Not solved."))

(* C9, amended: FindPathsAndNegativeCycles and FindPathOnly leave _solved    *)
(* true; ContainsNegativeCycles and ContainsNegativeCycles_Sedgewick leave it *)
(* true when they return false and leave it as it was (false on a new         *)
(* engine) when they return true; ReconstructShortestPath answers             *)
(* "Not solved." exactly when _solved is false.                               *)
C9_SolvedUnlessCycleReported ==
  runs >= 1 =>
    /\ last.op \in {"C", "D"} => _solved
    /\ (last.op \in {"A", "B"} /\ ~last.ret) => _solved
    /\ (last.op \in {"A", "B"} /\ last.ret) => (_solved = last.wasSolved)
    /\ Called => ((out.msg = "Not solved.") <=> ~_solved)

(* C9's case: ContainsNegativeCycles reported a cycle on a new engine and    *)
(* ReconstructShortestPath then answered "Not solved.".                       *)
C9_Witness ==
  /\ FreshRun("A") /\ last.ret /\ ~_solved
  /\ \E v \in Nodes : _previousVertex[v] >= 0
  /\ Called /\ out.msg = "Not solved." /\ out.path = <<>>

(* C10: after any strategy, a node with no path from the source and not      *)
(* reachable from a negative cycle still has predecessor -1 and distance INF. *)
C10_UnreachedStaysUntouched ==
  runs = 1 =>
    \A v \in Nodes :
      (~Reaches(Matrix, from, v) /\ v \notin Contaminated(Matrix)) =>
        (_previousVertex[v] = -1 /\ _shortestPath[v] = INF)

(* C11: FindPathOnly terminates on every graph and source, on a new engine   *)
(* and on a used one, also when a negative cycle is reachable from the        *)
(* source: the call ends at the round bound, never with the queue empty when  *)
(* its front is taken; the marker n is taken at most n + 2 times; and _solved *)
(* is true when the call returns.                                             *)
C11_FindPathOnlyTerminatesSolved ==
  /\ LET call == FindPathOnlyOp(Engine, Matrix, from)
     IN /\ call.done = "bound"
        /\ call.pops <= Size(Matrix) + 2
        /\ call.solved
  /\ last.op = "D" => _solved

(* C11's case: FindPathOnly has run on a new engine from a source that lies  *)
(* on a negative cycle; the marker was taken n + 2 times and _solved is true. *)
C11_Witness ==
  /\ FreshRun("D") /\ _solved
  /\ OnNegativeCycle(Matrix, from)
  /\ LET call == FindPathOnlyOp(FreshEngine, Matrix, from)
     IN /\ call.done = "bound" /\ call.pops = Size(Matrix) + 2
        /\ call.d = _shortestPath /\ call.p = _previousVertex

(* C12: once a strategy has left _solved true, every consecutive pair (u, v) *)
(* of a non-empty sequence returned by ReconstructShortestPath is an edge of  *)
(* the graph (Matrix[u][v] is not INF), and _previousVertex[v] = u >= 0 only  *)
(* when the edge u -> v exists.                                               *)
C12_PathsFollowEdges ==
  (_solved /\ runs >= 1) =>
    /\ \A v \in Nodes :
         _previousVertex[v] >= 0 => Matrix[_previousVertex[v]][v] # INF
    /\ (Called /\ out.returns) =>
         \A i \in 1..(Len(out.path) - 1) :
           Matrix[out.path[i]][out.path[i + 1]] # INF

---------------------------------------------------------------------------
(* What the code does guarantee where C2 fails *)

(* On a graph without a self-loop of negative weight the marking of          *)
(* FindPathsAndNegativeCycles is exact.                                       *)
MarkingExactWithoutNegativeSelfLoop ==
  (FreshRun("C") /\ NoNegativeSelfLoop(Matrix)) => MarksExactlyContaminated

====
